---- MODULE Spec2Model ----
(***************************************************************************)
(* gnome-abrt, src/gnome_abrt/problems.py: the observable problem sources  *)
(* (ProblemSource), the lazily populated cache (CachedSource), the         *)
(* composite of sources (MultipleSources) and the Problem record.          *)
(*                                                                         *)
(* Python's None is the empty sequence and a value x that may be None is   *)
(* the one-element sequence <<x>>, so that an unset cache (None) and a     *)
(* loaded, empty cache (<<<<>>>>) are different values, as in the code.    *)
(***************************************************************************)
EXTENDS Naturals, Sequences, FiniteSets, Bags, TLC

\* ---------------------------------------------------------------- bounds
NumSources == 2
NumIds == 2
NumObs == 2
MaxLen == 2

\* ------------------------------------------------------------- constants
NEW_PROBLEM == 0
DELETED_PROBLEM == 1
CHANGED_PROBLEM == 2

None == <<>>
Some(x) == <<x>>

\* The child sources (CachedSource), the composite, the problem ids, the
\* client observers and the composite's internal observer on each child.
Children == 1..NumSources
Multi == 0
Sources == {Multi} \cup Children
Ids == 1..NumIds
Obs == 1..NumObs
SourceObserver == 0

\* A string is the sequence of its characters.
InitialKeys == {"component", "executable", "time", "reason"}
RawKeys == InitialKeys \cup {"reported_to", "count"}
VirtualKeys == {"date", "application", "is_reported", "submission"}
DefaultItems == [k \in InitialKeys |-> <<"1">>]
EmptyItems == [k \in {} |-> <<>>]

\* What the provider may hold for a problem: the initial fields but the
\* time; all the fields, with one report line; the initial fields and an
\* empty reported_to.
Report == <<"B", ":", " ", "U", "=", "x", "=">>
Stores ==
    {[k \in InitialKeys \ {"time"} |-> <<"1">>],
     [k \in RawKeys |-> IF k = "reported_to" THEN Report
                        ELSE IF k = "count" THEN <<"2">> ELSE <<"1">>],
     [k \in InitialKeys \cup {"reported_to"} |->
         IF k = "reported_to" THEN <<>> ELSE <<"1">>]}

Restrict(store, keys) == [k \in (DOMAIN store) \cap keys |-> store[k]]
Merge(data, items) ==
    [k \in (DOMAIN data) \cup (DOMAIN items) |->
        IF k \in DOMAIN items THEN items[k] ELSE data[k]]

ConstructionErrors == {"InvalidProblem", "UnavailableSource"}

VARIABLES _cache, _observers, _disable_notify, held, last

vars == <<_cache, _observers, _disable_notify, held, last>>

\* ------------------------------------------------------------- Problem
Problem(problem_id, source, items) ==
    [problem_id |-> problem_id,
     source |-> source,
     app |-> None,
     submission |-> None,
     data |-> items,
     _deleted |-> FALSE]

\* Problem.__eq__ between two Problems, and between a Problem and an id.
Problem_eq(p, problem_id) == p.problem_id = problem_id

\* ------------------------------------------------------- ProblemSource
Event(change_type, problem) == [change_type |-> change_type, problem |-> problem]

\* ProblemSource.attach: the observer joins the set unless it is in it.
ProblemSource_attach_nothing(observers, o) == observers

ProblemSource_attach(observers, o) ==
    IF o \in observers THEN observers ELSE observers \cup {o}

\* ProblemSource.detach: set.remove raises KeyError for an element that is
\* not in the set, and the handler around it catches ValueError only.
ProblemSource_detach(observers, o) ==
    IF o \in observers
    THEN [observers |-> observers \ {o}, raised |-> "none"]
    ELSE [observers |-> observers, raised |-> "KeyError"]

\* The loop of ProblemSource.notify over the client observers of source s:
\* one changed(s, change_type, problem) call on each.
Deliver(s, ev) ==
    SetToBag({[to |-> o, source |-> s, change_type |-> ev.change_type,
               problem |-> ev.problem] : o \in _observers[s] \ {SourceObserver}})

MultipleSources_notify_always(disabled, ev) == Deliver(Multi, ev)

\* MultipleSources.notify: nothing while the suppression flag is set.
MultipleSources_notify(disabled, ev) ==
    IF disabled THEN EmptyBag ELSE Deliver(Multi, ev)

SourceObserver_changed_nothing(disabled, ev) == EmptyBag

\* SourceObserver.changed: forwards to the composite's notify.
SourceObserver_changed(disabled, ev) == MultipleSources_notify(disabled, ev)

\* ProblemSource.notify on a child source s: every attached observer is
\* called once; the composite's internal observer forwards the event.
ProblemSource_notify(s, disabled, ev) ==
    Deliver(s, ev) (+)
    (IF SourceObserver \in _observers[s]
     THEN SourceObserver_changed(disabled, ev) ELSE EmptyBag)

\* The calls of notify a method made, in order (here: none or one).
RECURSIVE NotifyAll(_, _, _)
NotifyAll(s, disabled, events) ==
    IF events = <<>> THEN EmptyBag
    ELSE ProblemSource_notify(s, disabled, Head(events))
         (+) NotifyAll(s, disabled, Tail(events))

\* -------------------------------------------------------- CachedSource
\* Python truth of self._cache: None and the empty list are both false.
Truthy(c) == c # None /\ c[1] # <<>>

create_new_problem(problem_id, s, items) == Problem(problem_id, s, items)

\* An outcome of create_new_problem: the items Problem.__init__ read from the
\* source, or the error that get_items raised.
Outcomes(itemSet) ==
    {[raised |-> "none", items |-> m] : m \in itemSet} \cup
    {[raised |-> e, items |-> EmptyItems] : e \in ConstructionErrors}

\* The answers of impl_get_problems: the sequences of at most n of the ids.
Listings(ids, n) == UNION {[1..k -> ids] : k \in 0..n}

RaisedOf(outcomes) == [i \in 1..Len(outcomes) |-> outcomes[i].raised]

RECURSIVE PopulateAbort(_, _, _)
PopulateAbort(s, listing, outcomes) ==
    IF listing = <<>> THEN <<>>
    ELSE IF Head(outcomes).raised = "none"
         THEN <<create_new_problem(Head(listing), s, Head(outcomes).items)>>
              \o PopulateAbort(s, Tail(listing), Tail(outcomes))
         ELSE <<>>

\* The loop of get_problems over impl_get_problems(): an id whose construction
\* raised InvalidProblem or UnavailableSource is skipped.
RECURSIVE Populate(_, _, _)
Populate(s, listing, outcomes) ==
    IF listing = <<>> THEN <<>>
    ELSE IF Head(outcomes).raised = "none"
         THEN <<create_new_problem(Head(listing), s, Head(outcomes).items)>>
              \o Populate(s, Tail(listing), Tail(outcomes))
         ELSE Populate(s, Tail(listing), Tail(outcomes))

\* CachedSource.get_problems: populates when "not self._cache".
CachedSource_get_problems(c, s, listing, outcomes) ==
    LET populate == ~Truthy(c)
        c2 == IF populate THEN Some(Populate(s, listing, outcomes)) ELSE c
    IN  [cache |-> c2,
         ret |-> IF Truthy(c2) THEN c2[1] ELSE <<>>,
         listed |-> IF populate THEN 1 ELSE 0]

\* list.index(problem_id): the first entry equal to the id, 0 for ValueError.
Index(list, problem_id) ==
    IF \E i \in 1..Len(list) : Problem_eq(list[i], problem_id)
    THEN CHOOSE i \in 1..Len(list) :
             /\ Problem_eq(list[i], problem_id)
             /\ \A j \in 1..(i - 1) : ~Problem_eq(list[j], problem_id)
    ELSE 0

Remove(list, i) == SubSeq(list, 1, i - 1) \o SubSeq(list, i + 1, Len(list))

CachedSource_drop_cache_silent(c) == [cache |-> None, events |-> <<>>]

\* CachedSource.drop_cache
CachedSource_drop_cache(c) ==
    [cache |-> None, events |-> <<Event(None, None)>>]

CachedSource_insert_to_cache_unchecked(c, problem) ==
    IF Truthy(c)
    THEN [cache |-> Some(Append(c[1], problem)), raised |-> "none"]
    ELSE [cache |-> c, raised |-> "none"]

\* CachedSource._insert_to_cache
CachedSource_insert_to_cache(c, problem) ==
    IF Truthy(c)
    THEN IF \E i \in 1..Len(c[1]) : Problem_eq(c[1][i], problem.problem_id)
         THEN [cache |-> c, raised |-> "InvalidProblem"]
         ELSE [cache |-> Some(Append(c[1], problem)), raised |-> "none"]
    ELSE [cache |-> c, raised |-> "none"]

CachedSource_delete_problem_always(c, problem_id, accepted) ==
    IF c = None
    THEN [cache |-> c, raised |-> "AttributeError", events |-> <<>>]
    ELSE LET i == Index(c[1], problem_id)
         IN  IF i # 0
             THEN [cache |-> Some(Remove(c[1], i)), raised |-> "none",
                   events |-> <<Event(Some(DELETED_PROBLEM), Some(c[1][i]))>>]
             ELSE [cache |-> None, raised |-> "none",
                   events |-> <<Event(None, None)>>]

\* CachedSource.delete_problem, accepted being impl_delete_problem's answer.
\* self._cache.index on an unset cache (None) is an AttributeError, which the
\* "except ValueError" does not catch.
CachedSource_delete_problem(c, problem_id, accepted) ==
    IF ~accepted
    THEN [cache |-> c, raised |-> "none", events |-> <<>>]
    ELSE IF c = None
    THEN [cache |-> c, raised |-> "AttributeError", events |-> <<>>]
    ELSE LET i == Index(c[1], problem_id)
         IN  IF i # 0
             THEN [cache |-> Some(Remove(c[1], i)), raised |-> "none",
                   events |-> <<Event(Some(DELETED_PROBLEM), Some(c[1][i]))>>]
             ELSE [cache |-> None, raised |-> "none",
                   events |-> <<Event(None, None)>>]

CachedSource_process_new_problem_id_uncaught(c, s, problem_id, outcome) ==
    IF outcome.raised # "none"
    THEN [cache |-> c, raised |-> outcome.raised, events |-> <<>>]
    ELSE LET p == create_new_problem(problem_id, s, outcome.items)
             r == CachedSource_insert_to_cache(c, p)
         IN  IF r.raised # "none"
             THEN [cache |-> c, raised |-> r.raised, events |-> <<>>]
             ELSE [cache |-> r.cache, raised |-> "none",
                   events |-> <<Event(Some(NEW_PROBLEM), Some(p))>>]

\* CachedSource.process_new_problem_id: InvalidProblem and UnavailableSource,
\* from the construction or from _insert_to_cache, are caught and logged.
CachedSource_process_new_problem_id(c, s, problem_id, outcome) ==
    IF outcome.raised # "none"
    THEN [cache |-> c, raised |-> "none", events |-> <<>>]
    ELSE LET p == create_new_problem(problem_id, s, outcome.items)
             r == CachedSource_insert_to_cache(c, p)
         IN  IF r.raised # "none"
             THEN [cache |-> c, raised |-> "none", events |-> <<>>]
             ELSE [cache |-> r.cache, raised |-> "none",
                   events |-> <<Event(Some(NEW_PROBLEM), Some(p))>>]

\* ------------------------------------------------------ Problem: methods
\* source.get_items(problem_id, *keys): the provider's fields among keys, or
\* the provider's failure.
source_get_items(store, fails, keys) ==
    IF fails THEN [raised |-> "UnavailableSource", items |-> EmptyItems]
    ELSE [raised |-> "none", items |-> Restrict(store, keys)]

\* What a method of Problem did: the Problem after it, the value returned
\* (None for Python's None), the number of get_items calls and the exception.
Result(p, value, queried, raised) ==
    [problem |-> p, value |-> value, queried |-> queried, raised |-> raised]

Problem_loaditems_ignoring_tombstone(p, keys, store, fails) ==
    LET g == source_get_items(store, fails, keys)
    IN  IF g.raised # "none"
        THEN [problem |-> p, items |-> EmptyItems, queried |-> 1,
              raised |-> g.raised]
        ELSE [problem |-> [p EXCEPT !.data = Merge(@, g.items)],
              items |-> g.items, queried |-> 1, raised |-> "none"]

\* Problem.__loaditems__
Problem_loaditems(p, keys, store, fails) ==
    IF p._deleted
    THEN [problem |-> p, items |-> EmptyItems, queried |-> 0, raised |-> "none"]
    ELSE LET g == source_get_items(store, fails, keys)
         IN  IF g.raised # "none"
             THEN [problem |-> p, items |-> EmptyItems, queried |-> 1,
                   raised |-> g.raised]
             ELSE [problem |-> [p EXCEPT !.data = Merge(@, g.items)],
                   items |-> g.items, queried |-> 1, raised |-> "none"]

CountDefault == <<"1">>

\* Problem.__getitem__ for a stored field: the cached value, else the value
\* loaded from the source, else 1 for 'count', else None.
Problem_getraw(p, item, store, fails) ==
    IF item \in DOMAIN p.data
    THEN Result(p, Some(p.data[item]), 0, "none")
    ELSE LET l == Problem_loaditems(p, {item}, store, fails)
         IN  IF l.raised # "none"
             THEN Result(l.problem, None, l.queried, l.raised)
             ELSE IF item \in DOMAIN l.items
             THEN Result(l.problem, Some(l.items[item]), l.queried, "none")
             ELSE IF item = "count"
             THEN Result(l.problem, Some(CountDefault), l.queried, "none")
             ELSE Result(l.problem, None, l.queried, "none")

\* The scanning loops of get_submission over the line l (positions from 0).
\* A character stops a loop when its membership in chars equals member.
\* "for i in xrange(start, len(l))" leaves i at the first position whose
\* character stops the loop, at the last position when none does, and as it
\* was when the range is empty.
ScanTo(l, start, chars, member) ==
    IF start >= Len(l) THEN start
    ELSE IF \E j \in start..(Len(l) - 1) : (l[j + 1] \in chars) = member
    THEN CHOOSE j \in start..(Len(l) - 1) :
             /\ (l[j + 1] \in chars) = member
             /\ \A k \in start..(j - 1) : (l[k + 1] \in chars) # member
    ELSE Len(l) - 1

\* The characters the loop appended: those before the one that stopped it.
Scanned(l, start, chars, member) ==
    IF start >= Len(l) THEN <<>>
    ELSE IF \E j \in start..(Len(l) - 1) : (l[j + 1] \in chars) = member
    THEN SubSeq(l, start + 1, ScanTo(l, start, chars, member))
    ELSE SubSeq(l, start + 1, Len(l))

Submission(title, rtype, data) == [title |-> title, rtype |-> rtype, data |-> data]

\* One non-empty line of reported_to, "TITLE: TYPE=REST".
ParseLine(l) ==
    LET i1 == ScanTo(l, 0, {":"}, TRUE) + 1
        i2 == ScanTo(l, i1, {" "}, FALSE)
        i3 == ScanTo(l, i2, {"="}, TRUE) + 1
    IN  Submission(Scanned(l, 0, {":"}, TRUE), Scanned(l, i2, {"="}, TRUE),
                   SubSeq(l, i3 + 1, Len(l)))

\* str.split('\n')
RECURSIVE Split(_)
Split(text) ==
    IF \E j \in 1..Len(text) : text[j] = "\n"
    THEN LET j == CHOOSE j \in 1..Len(text) :
                      /\ text[j] = "\n"
                      /\ \A k \in 1..(j - 1) : text[k] # "\n"
         IN  <<SubSeq(text, 1, j - 1)>> \o Split(SubSeq(text, j + 1, Len(text)))
    ELSE <<text>>

RECURSIVE ParseLines(_)
ParseLines(lines) ==
    IF lines = <<>> THEN <<>>
    ELSE IF Head(lines) = <<>> THEN ParseLines(Tail(lines))
    ELSE <<ParseLine(Head(lines))>> \o ParseLines(Tail(lines))

\* Problem.get_submission; the value returned is self.submission.
Problem_get_submission(p, store, fails) ==
    IF p.submission # None /\ p.submission[1] # <<>>
    THEN Result(p, None, 0, "none")
    ELSE LET p1 == [p EXCEPT !.submission = Some(<<>>)]
             r == Problem_getraw(p1, "reported_to", store, fails)
         IN  IF r.raised # "none" THEN r
             ELSE IF r.value # None /\ r.value[1] # <<>>
             THEN Result([r.problem EXCEPT !.submission =
                              Some(ParseLines(Split(r.value[1])))],
                         None, r.queried, "none")
             ELSE Result(r.problem, None, r.queried, "none")

True == <<"T", "r", "u", "e">>
False == <<"F", "a", "l", "s", "e">>

\* Problem.is_reported
Problem_is_reported(p, store, fails) ==
    LET r == Problem_getraw(p, "reported_to", store, fails)
    IN  IF r.raised # "none" THEN r
        ELSE Result(r.problem, Some(IF r.value # None THEN True ELSE False),
                    r.queried, "none")

AppHandle == <<"a", "p", "p">>

\* Problem.get_application; found is find_application's answer.
Problem_get_application(p, store, fails, found) ==
    IF p.app # None THEN Result(p, p.app, 0, "none")
    ELSE LET c == Problem_getraw(p, "component", store, fails)
             e == Problem_getraw(c.problem, "executable", store, fails)
             app == IF found THEN Some(AppHandle) ELSE None
         IN  IF c.raised # "none" THEN c
             ELSE IF e.raised # "none"
             THEN Result(e.problem, None, c.queried + e.queried, e.raised)
             ELSE Result([e.problem EXCEPT !.app = app], app,
                         c.queried + e.queried, "none")

\* datetime.datetime.fromtimestamp(float(text)) of a numeral.
Digits == {"0", "1", "2", "3", "4", "5", "6", "7", "8", "9"}
FromTimestamp(text) == <<"@">> \o text

\* Problem.__getitem__(item)
Problem_getitem(p, item, store, fails, found) ==
    IF item = "date"
    THEN LET r == Problem_getraw(p, "time", store, fails)
         IN  IF r.raised # "none" THEN r
             ELSE IF r.value = None
             THEN Result(r.problem, None, r.queried, "TypeError")
             ELSE IF r.value[1] = <<>>
                     \/ \E j \in 1..Len(r.value[1]) : r.value[1][j] \notin Digits
             THEN Result(r.problem, None, r.queried, "ValueError")
             ELSE Result(r.problem, Some(FromTimestamp(r.value[1])),
                         r.queried, "none")
    ELSE IF item = "application"
    THEN Problem_get_application(p, store, fails, found)
    ELSE IF item = "is_reported"
    THEN Problem_is_reported(p, store, fails)
    ELSE IF item = "submission"
    THEN Problem_get_submission(p, store, fails)
    ELSE Problem_getraw(p, item, store, fails)

Problem_refresh_ignoring_tombstone(p, store, fails) ==
    LET g == source_get_items(store, fails, InitialKeys)
        p2 == [p EXCEPT !.data = g.items, !.submission = None]
    IN  IF g.raised # "none"
        THEN [problem |-> p, queried |-> 1, raised |-> g.raised, events |-> <<>>]
        ELSE [problem |-> p2, queried |-> 1, raised |-> "none",
              events |-> <<Event(Some(CHANGED_PROBLEM), Some(p2))>>]

Problem_refresh_keeping_submission(p, store, fails) ==
    IF p._deleted
    THEN [problem |-> p, queried |-> 0, raised |-> "none", events |-> <<>>]
    ELSE LET g == source_get_items(store, fails, InitialKeys)
             p2 == [p EXCEPT !.data = g.items]
         IN  IF g.raised # "none"
             THEN [problem |-> p, queried |-> 1, raised |-> g.raised,
                   events |-> <<>>]
             ELSE [problem |-> p2, queried |-> 1, raised |-> "none",
                   events |-> <<Event(Some(CHANGED_PROBLEM), Some(p2))>>]

\* Problem.refresh; events are what it passes to self.source.notify.
Problem_refresh(p, store, fails) ==
    IF p._deleted
    THEN [problem |-> p, queried |-> 0, raised |-> "none", events |-> <<>>]
    ELSE LET g == source_get_items(store, fails, InitialKeys)
             p2 == [p EXCEPT !.data = g.items, !.submission = None]
         IN  IF g.raised # "none"
             THEN [problem |-> p, queried |-> 1, raised |-> g.raised,
                   events |-> <<>>]
             ELSE [problem |-> p2, queried |-> 1, raised |-> "none",
                   events |-> <<Event(Some(CHANGED_PROBLEM), Some(p2))>>]

\* source.delete_problem as Problem.delete calls it: impl_delete_problem
\* accepts, refuses, or (fails) raises an exception of its own.
source_delete_problem(c, problem_id, accepted, fails) ==
    IF fails THEN [cache |-> c, raised |-> "Exception", events |-> <<>>]
    ELSE CachedSource_delete_problem(c, problem_id, accepted)

\* Problem.delete on a Problem that is not in the cache c of its source: the
\* tombstone is set, the source is asked, and any exception clears it again.
\* caught is the exception the handler swallowed.
Problem_delete(p, c, accepted, fails) ==
    LET p1 == [p EXCEPT !._deleted = TRUE]
        r == source_delete_problem(c, p.problem_id, accepted, fails)
    IN  IF r.raised # "none"
        THEN [problem |-> [p1 EXCEPT !._deleted = FALSE], cache |-> r.cache,
              raised |-> "none", caught |-> r.raised, events |-> r.events]
        ELSE [problem |-> p1, cache |-> r.cache, raised |-> "none",
              caught |-> "none", events |-> r.events]

Problem_delete_cached_keeping_tombstone(c, k, accepted, fails) ==
    LET c1 == Some([c[1] EXCEPT ![k]._deleted = TRUE])
        r == source_delete_problem(c1, c[1][k].problem_id, accepted, fails)
    IN  [problem |-> c1[1][k], cache |-> r.cache, raised |-> "none",
         caught |-> r.raised, events |-> r.events]

\* Problem.delete on the Problem at position k of the loaded cache c of its
\* source: the source sees the tombstone on the object it holds.
Problem_delete_cached(c, k, accepted, fails) ==
    LET c1 == Some([c[1] EXCEPT ![k]._deleted = TRUE])
        r == source_delete_problem(c1, c[1][k].problem_id, accepted, fails)
    IN  IF r.raised # "none"
        THEN [problem |-> [c1[1][k] EXCEPT !._deleted = FALSE],
              cache |-> Some([r.cache[1] EXCEPT ![k]._deleted = FALSE]),
              raised |-> "none", caught |-> r.raised, events |-> r.events]
        ELSE [problem |-> c1[1][k], cache |-> r.cache, raised |-> "none",
              caught |-> "none", events |-> r.events]

\* ----------------------------------------------------- MultipleSources
\* The loop of MultipleSources.drop_cache from child k on, the suppression
\* flag being set: each child drops its cache and notifies its observers,
\* the composite's internal observer among them. The child numbered failing
\* (0: none) raises from its drop_cache, which ends the loop.
RECURSIVE DropChildren(_, _, _, _)
DropChildren(caches, k, failing, disabled) ==
    IF k > NumSources
    THEN [cache |-> caches, raised |-> "none", delivered |-> EmptyBag]
    ELSE IF k = failing
    THEN [cache |-> caches, raised |-> "Exception", delivered |-> EmptyBag]
    ELSE LET r == CachedSource_drop_cache(caches[k])
             rest == DropChildren([caches EXCEPT ![k] = r.cache], k + 1,
                                  failing, disabled)
         IN  [rest EXCEPT !.delivered = NotifyAll(k, disabled, r.events) (+) @]

MultipleSources_drop_cache_without_finally(caches, failing) ==
    LET r == DropChildren(caches, 1, failing, TRUE)
    IN  IF r.raised # "none"
        THEN [cache |-> r.cache, disable |-> TRUE, raised |-> r.raised,
              events |-> <<>>, delivered |-> r.delivered]
        ELSE [cache |-> r.cache, disable |-> FALSE, raised |-> "none",
              events |-> <<Event(None, None)>>,
              delivered |-> r.delivered
                            (+) MultipleSources_notify(FALSE, Event(None, None))]

\* MultipleSources.drop_cache: the flag is set, the children drop their
\* caches, the "finally" clears the flag, and the notify() after the try
\* statement runs only when no child raised.
MultipleSources_drop_cache(caches, failing) ==
    LET r == DropChildren(caches, 1, failing, TRUE)
        disable == FALSE
    IN  IF r.raised # "none"
        THEN [cache |-> r.cache, disable |-> disable, raised |-> r.raised,
              events |-> <<>>, delivered |-> r.delivered]
        ELSE [cache |-> r.cache, disable |-> disable, raised |-> "none",
              events |-> <<Event(None, None)>>,
              delivered |-> r.delivered
                            (+) MultipleSources_notify(disable, Event(None, None))]

\* The three states of self._cache.
CacheState(c) ==
    IF c = None THEN "unset" ELSE IF c[1] = <<>> THEN "empty" ELSE "populated"

\* ------------------------------------------------------------- the calls
\* What the last call did that the state does not keep: its arguments, the
\* provider's answers, the exception it propagated, what it returned, the
\* number of impl_get_problems and get_items calls it made, and the bag of
\* changed() calls it made on client observers. For a method of a Problem:
\* its position in the cache (0: not cached), the Problem after the call,
\* the exception the method swallowed and what the provider held.
NoCall ==
    [op |-> "init", src |-> Multi, id |-> 0, listing |-> <<>>, outcomes |-> <<>>,
     accepted |-> FALSE, before |-> "unset", raised |-> "none", ret |-> None,
     item |-> "", value |-> None, listed |-> 0, queried |-> 0,
     events |-> <<>>, delivered |-> EmptyBag,
     at |-> 0, problem |-> None, caught |-> "none", store |-> EmptyItems]

Init ==
    /\ _cache = [s \in Children |-> None]
    /\ _observers = [s \in Sources |->
                        IF s = Multi THEN {} ELSE {SourceObserver}]
    /\ _disable_notify = FALSE
    /\ held = None
    /\ last = NoCall

get_problems(s, ids, n, itemSet) ==
    /\ \E listing \in IF Truthy(_cache[s]) THEN {<<>>} ELSE Listings(ids, n) :
       \E outcomes \in [1..Len(listing) -> Outcomes(itemSet)] :
          LET r == CachedSource_get_problems(_cache[s], s, listing, outcomes)
          IN  /\ _cache' = [_cache EXCEPT ![s] = r.cache]
              /\ last' = [NoCall EXCEPT !.op = "get_problems", !.src = s,
                                        !.before = CacheState(_cache[s]),
                                        !.listing = listing,
                                        !.outcomes = RaisedOf(outcomes),
                                        !.ret = Some(r.ret),
                                        !.listed = r.listed,
                                        !.queried = r.listed * Len(listing)]
    /\ UNCHANGED <<_observers, _disable_notify, held>>

drop_cache(s) ==
    LET r == CachedSource_drop_cache(_cache[s])
    IN  /\ _cache' = [_cache EXCEPT ![s] = r.cache]
        /\ last' = [NoCall EXCEPT !.op = "drop_cache", !.src = s,
                        !.before = CacheState(_cache[s]),
                        !.events = r.events,
                        !.delivered = NotifyAll(s, _disable_notify, r.events)]
        /\ UNCHANGED <<_observers, _disable_notify, held>>

\* The client (or a provider) builds a Problem without inserting it.
new_problem(s, problem_id, itemSet) ==
    /\ \E outcome \in Outcomes(itemSet) :
          /\ held' = IF outcome.raised = "none"
                     THEN Some(create_new_problem(problem_id, s, outcome.items))
                     ELSE held
          /\ last' = [NoCall EXCEPT !.op = "create_new_problem", !.src = s,
                                    !.id = problem_id,
                                    !.raised = outcome.raised, !.queried = 1]
    /\ UNCHANGED <<_cache, _observers, _disable_notify>>

\* _insert_to_cache(problem) with the Problem the caller holds; once inserted
\* the cache holds it.
insert_to_cache(s) ==
    /\ held # None
    /\ held[1].source = s
    /\ LET r == CachedSource_insert_to_cache(_cache[s], held[1])
       IN  /\ r.cache # None => Len(r.cache[1]) <= MaxLen
           /\ _cache' = [_cache EXCEPT ![s] = r.cache]
           /\ held' = IF r.cache # _cache[s] THEN None ELSE held
           /\ last' = [NoCall EXCEPT !.op = "_insert_to_cache", !.src = s,
                                     !.id = held[1].problem_id,
                                     !.before = CacheState(_cache[s]),
                                     !.raised = r.raised]
    /\ UNCHANGED <<_observers, _disable_notify>>

delete_problem(s, problem_id, accepted) ==
    LET r == CachedSource_delete_problem(_cache[s], problem_id, accepted)
    IN  /\ _cache' = [_cache EXCEPT ![s] = r.cache]
        /\ last' = [NoCall EXCEPT !.op = "delete_problem", !.src = s,
                        !.id = problem_id, !.accepted = accepted,
                        !.before = CacheState(_cache[s]),
                        !.raised = r.raised, !.events = r.events,
                        !.delivered = NotifyAll(s, _disable_notify, r.events)]
        /\ UNCHANGED <<_observers, _disable_notify, held>>

process_new_problem_id(s, problem_id, itemSet) ==
    /\ \E outcome \in Outcomes(itemSet) :
          LET r == CachedSource_process_new_problem_id(_cache[s], s,
                                                       problem_id, outcome)
          IN  /\ r.cache # None => Len(r.cache[1]) <= MaxLen
              /\ _cache' = [_cache EXCEPT ![s] = r.cache]
              /\ last' = [NoCall EXCEPT !.op = "process_new_problem_id",
                              !.src = s, !.id = problem_id,
                              !.outcomes = <<outcome.raised>>,
                              !.before = CacheState(_cache[s]),
                              !.raised = r.raised, !.queried = 1,
                              !.events = r.events,
                              !.delivered =
                                  NotifyAll(s, _disable_notify, r.events)]
    /\ UNCHANGED <<_observers, _disable_notify, held>>

\* ProblemSource.attach
attach(s, o) ==
    /\ _observers' = [_observers EXCEPT ![s] = ProblemSource_attach(@, o)]
    /\ last' = [NoCall EXCEPT !.op = "attach", !.src = s, !.id = o]
    /\ UNCHANGED <<_cache, _disable_notify, held>>

detach(s, o) ==
    LET r == ProblemSource_detach(_observers[s], o)
    IN  /\ _observers' = [_observers EXCEPT ![s] = r.observers]
        /\ last' = [NoCall EXCEPT !.op = "detach", !.src = s, !.id = o,
                                  !.raised = r.raised]
        /\ UNCHANGED <<_cache, _disable_notify, held>>

\* A direct call of notify(change_type, problem) on source s.
notify(s, change_type, problem) ==
    LET ev == Event(change_type, problem)
    IN  /\ last' = [NoCall EXCEPT !.op = "notify", !.src = s,
                        !.events = <<ev>>,
                        !.delivered =
                            IF s = Multi
                            THEN MultipleSources_notify(_disable_notify, ev)
                            ELSE ProblemSource_notify(s, _disable_notify, ev)]
        /\ UNCHANGED <<_cache, _observers, _disable_notify, held>>

\* One CachedSource, a client observer and the Problems it builds.
Next ==
    \/ get_problems(1, Ids, MaxLen, {DefaultItems})
    \/ drop_cache(1)
    \/ \E i \in Ids : new_problem(1, i, {DefaultItems})
    \/ insert_to_cache(1)
    \/ \E i \in Ids, accepted \in BOOLEAN : delete_problem(1, i, accepted)
    \/ \E i \in Ids : process_new_problem_id(1, i, {DefaultItems})
    \/ attach(1, 1)

Spec == Init /\ [][Next]_vars

\* The methods of the Problem at position k of the loaded cache of source s,
\* to which the client holds a reference.
delete_cached(s, k) ==
    /\ _cache[s] # None
    /\ k \in 1..Len(_cache[s][1])
    /\ \E accepted \in BOOLEAN, fails \in BOOLEAN :
          LET r == Problem_delete_cached(_cache[s], k, accepted, fails)
          IN  /\ fails => ~accepted
              /\ _cache' = [_cache EXCEPT ![s] = r.cache]
              /\ last' = [NoCall EXCEPT !.op = "delete", !.src = s,
                              !.id = _cache[s][1][k].problem_id,
                              !.at = k, !.accepted = accepted,
                              !.before = CacheState(_cache[s]),
                              !.problem = Some(r.problem),
                              !.caught = r.caught,
                              !.raised = r.raised, !.events = r.events,
                              !.delivered =
                                  NotifyAll(s, _disable_notify, r.events)]
    /\ UNCHANGED <<_observers, _disable_notify, held>>

refresh_cached(s, k) ==
    /\ _cache[s] # None
    /\ k \in 1..Len(_cache[s][1])
    /\ \E store \in Stores, fails \in BOOLEAN :
          LET r == Problem_refresh(_cache[s][1][k], store, fails)
          IN  /\ _cache' = [_cache EXCEPT ![s][1][k] = r.problem]
              /\ last' = [NoCall EXCEPT !.op = "refresh", !.src = s,
                              !.id = _cache[s][1][k].problem_id,
                              !.at = k, !.problem = Some(r.problem),
                              !.store = store,
                              !.raised = r.raised, !.queried = r.queried,
                              !.events = r.events,
                              !.delivered =
                                  NotifyAll(s, _disable_notify, r.events)]
    /\ UNCHANGED <<_observers, _disable_notify, held>>

get_submission_cached(s, k) ==
    /\ _cache[s] # None
    /\ k \in 1..Len(_cache[s][1])
    /\ \E store \in Stores, fails \in BOOLEAN :
          LET r == Problem_get_submission(_cache[s][1][k], store, fails)
          IN  /\ _cache' = [_cache EXCEPT ![s][1][k] = r.problem]
              /\ last' = [NoCall EXCEPT !.op = "get_submission", !.src = s,
                              !.id = _cache[s][1][k].problem_id,
                              !.at = k, !.problem = Some(r.problem),
                              !.store = store,
                              !.raised = r.raised, !.queried = r.queried]
    /\ UNCHANGED <<_observers, _disable_notify, held>>

getitem_cached(s, k, item) ==
    /\ _cache[s] # None
    /\ k \in 1..Len(_cache[s][1])
    /\ \E store \in Stores, fails \in BOOLEAN :
          LET r == Problem_getitem(_cache[s][1][k], item, store, fails, FALSE)
          IN  /\ _cache' = [_cache EXCEPT ![s][1][k] = r.problem]
              /\ last' = [NoCall EXCEPT !.op = "__getitem__", !.src = s,
                              !.id = _cache[s][1][k].problem_id,
                              !.at = k, !.problem = Some(r.problem),
                              !.item = item, !.value = r.value,
                              !.raised = r.raised, !.queried = r.queried]
    /\ UNCHANGED <<_observers, _disable_notify, held>>

\* The strongest state among the children's caches.
AnyCacheState(caches) ==
    IF \E s \in Children : CacheState(caches[s]) = "populated" THEN "populated"
    ELSE IF \E s \in Children : CacheState(caches[s]) = "empty" THEN "empty"
    ELSE "unset"

MultipleSources_drop_cache_call(failing) ==
    LET r == MultipleSources_drop_cache(_cache, failing)
    IN  /\ _cache' = r.cache
        /\ _disable_notify' = r.disable
        /\ last' = [NoCall EXCEPT !.op = "MultipleSources.drop_cache",
                        !.src = Multi, !.id = failing,
                        !.before = AnyCacheState(_cache),
                        !.raised = r.raised, !.events = r.events,
                        !.delivered = r.delivered]
        /\ UNCHANGED <<_observers, held>>

\* The composite over all the children, with client observers on the
\* composite and on the first child; the providers know one id.
NextMulti ==
    \/ \E s \in Children : get_problems(s, {1}, 1, {DefaultItems})
    \/ \E s \in Children : drop_cache(s)
    \/ \E failing \in 0..NumSources : MultipleSources_drop_cache_call(failing)
    \/ \E s \in Children, accepted \in BOOLEAN : delete_problem(s, 1, accepted)
    \/ \E s \in Children : process_new_problem_id(s, 1, {DefaultItems})
    \/ \E s \in {Multi, 1}, o \in Obs : attach(s, o)
    \/ \E s \in Children : refresh_cached(s, 1)

SpecMulti == Init /\ [][NextMulti]_vars

\* The methods of the Problem the client holds; store and fails are what
\* the provider would answer to get_items during the call.
getitem(item) ==
    /\ held # None
    /\ \E store \in Stores, fails \in BOOLEAN,
          found \in IF item = "application" THEN BOOLEAN ELSE {FALSE} :
          LET r == Problem_getitem(held[1], item, store, fails, found)
          IN  /\ held' = Some(r.problem)
              /\ last' = [NoCall EXCEPT !.op = "__getitem__",
                              !.src = held[1].source,
                              !.id = held[1].problem_id, !.item = item,
                              !.value = r.value, !.raised = r.raised,
                              !.queried = r.queried]
    /\ UNCHANGED <<_cache, _observers, _disable_notify>>

is_reported ==
    /\ held # None
    /\ \E store \in Stores, fails \in BOOLEAN :
          LET r == Problem_is_reported(held[1], store, fails)
          IN  /\ held' = Some(r.problem)
              /\ last' = [NoCall EXCEPT !.op = "is_reported",
                              !.src = held[1].source,
                              !.id = held[1].problem_id,
                              !.value = r.value, !.raised = r.raised,
                              !.queried = r.queried]
    /\ UNCHANGED <<_cache, _observers, _disable_notify>>

get_submission ==
    /\ held # None
    /\ \E store \in Stores, fails \in BOOLEAN :
          LET r == Problem_get_submission(held[1], store, fails)
          IN  /\ held' = Some(r.problem)
              /\ last' = [NoCall EXCEPT !.op = "get_submission",
                              !.src = held[1].source,
                              !.id = held[1].problem_id,
                              !.raised = r.raised, !.queried = r.queried]
    /\ UNCHANGED <<_cache, _observers, _disable_notify>>

get_application ==
    /\ held # None
    /\ \E store \in Stores, fails \in BOOLEAN, found \in BOOLEAN :
          LET r == Problem_get_application(held[1], store, fails, found)
          IN  /\ held' = Some(r.problem)
              /\ last' = [NoCall EXCEPT !.op = "get_application",
                              !.src = held[1].source,
                              !.id = held[1].problem_id,
                              !.value = r.value, !.raised = r.raised,
                              !.queried = r.queried]
    /\ UNCHANGED <<_cache, _observers, _disable_notify>>

refresh ==
    /\ held # None
    /\ \E store \in Stores, fails \in BOOLEAN :
          LET r == Problem_refresh(held[1], store, fails)
          IN  /\ held' = Some(r.problem)
              /\ last' = [NoCall EXCEPT !.op = "refresh",
                              !.src = held[1].source,
                              !.id = held[1].problem_id,
                              !.raised = r.raised, !.queried = r.queried,
                              !.events = r.events,
                              !.delivered = NotifyAll(held[1].source,
                                                _disable_notify, r.events)]
    /\ UNCHANGED <<_cache, _observers, _disable_notify>>

delete ==
    /\ held # None
    /\ \E accepted \in BOOLEAN, fails \in BOOLEAN :
          LET s == held[1].source
              r == Problem_delete(held[1], _cache[s], accepted, fails)
          IN  /\ fails => ~accepted
              /\ held' = Some(r.problem)
              /\ _cache' = [_cache EXCEPT ![s] = r.cache]
              /\ last' = [NoCall EXCEPT !.op = "delete", !.src = s,
                              !.id = held[1].problem_id,
                              !.accepted = accepted,
                              !.before = CacheState(_cache[s]),
                              !.problem = Some(r.problem),
                              !.caught = r.caught,
                              !.raised = r.raised, !.events = r.events,
                              !.delivered =
                                  NotifyAll(s, _disable_notify, r.events)]
    /\ UNCHANGED <<_observers, _disable_notify>>

\* One Problem of the first source, held by the client; the provider knows
\* one id.
NextProblem ==
    \/ new_problem(1, 1, {Restrict(st, InitialKeys) : st \in Stores})
    \/ get_problems(1, {1}, 1, {DefaultItems})
    \/ \E item \in RawKeys \cup VirtualKeys : getitem(item)
    \/ is_reported
    \/ get_submission
    \/ get_application
    \/ refresh
    \/ delete

SpecProblem == Init /\ [][NextProblem]_vars

\* One cached Problem of the first source and the client's calls on it; the
\* provider knows one id.
NextDelete ==
    \/ get_problems(1, {1}, 1, {DefaultItems})
    \/ drop_cache(1)
    \/ delete_cached(1, 1)
    \/ refresh_cached(1, 1)
    \/ \E item \in {"count", "reported_to"} : getitem_cached(1, 1, item)

SpecDelete == Init /\ [][NextDelete]_vars

\* One cached Problem of the first child, refreshed and parsed, with client
\* observers on the child and on the composite.
NextRefresh ==
    \/ get_problems(1, {1}, 1, {DefaultItems})
    \/ refresh_cached(1, 1)
    \/ get_submission_cached(1, 1)
    \/ delete_cached(1, 1)
    \/ \E s \in {Multi, 1}, o \in Obs : attach(s, o)

SpecRefresh == Init /\ [][NextRefresh]_vars

\* The observers of the composite and of its first child: clients attach
\* and detach, and the sources notify them.
ChangeTypes == {None, Some(NEW_PROBLEM), Some(DELETED_PROBLEM),
                Some(CHANGED_PROBLEM)}

NextObservers ==
    \/ \E s \in {Multi, 1}, o \in Obs : attach(s, o)
    \/ \E s \in {Multi, 1}, o \in Obs : detach(s, o)
    \/ \E s \in {Multi, 1}, change_type \in ChangeTypes,
          problem \in {None, Some(Problem(1, 1, DefaultItems))} :
          notify(s, change_type, problem)

SpecObservers == Init /\ [][NextObservers]_vars

\* ------------------------------------------------------------ the claims
IdsOf(list) == [i \in 1..Len(list) |-> list[i].problem_id]

\* The listed ids whose construction succeeded, in the listing's order.
OkPositions(raised) == {i \in 1..Len(raised) : raised[i] = "none"}
Nth(raised, k) ==
    CHOOSE i \in OkPositions(raised) :
        Cardinality({j \in OkPositions(raised) : j <= i}) = k
Constructed(listing, raised) ==
    [k \in 1..Cardinality(OkPositions(raised)) |-> listing[Nth(raised, k)]]

\* C1: a get_problems() call on an unset cache asks the provider once and
\* leaves, in the listing's order, one fresh Problem per listed entry whose
\* construction succeeded and none for an entry whose construction raised
\* InvalidProblem or UnavailableSource; nothing propagates to the caller, who
\* gets the same Problems back.
C1_PopulationSkipsFailedIds ==
    [][\A s \in Children :
          (last'.op = "get_problems" /\ last'.src = s /\ _cache[s] = None) =>
              /\ last'.listed = 1
              /\ last'.raised = "none"
              /\ _cache'[s] # None
              /\ IdsOf(_cache'[s][1]) = Constructed(last'.listing, last'.outcomes)
              /\ \A i \in 1..Len(_cache'[s][1]) :
                    /\ _cache'[s][1][i].source = s
                    /\ ~_cache'[s][1][i]._deleted
              /\ last'.ret = Some(_cache'[s][1])]_vars

\* C1's case: a population in which the first listed id failed to construct
\* and a later one was still built.
C1_Witness ==
    /\ last.op = "get_problems"
    /\ last.before = "unset"
    /\ last.listed = 1
    /\ Len(last.listing) >= 2
    /\ last.outcomes[1] \in ConstructionErrors
    /\ last.outcomes[2] = "none"
    /\ IdsOf(_cache[last.src][1]) = <<last.listing[2]>>

\* C2: once the cache is populated it is a loaded sequence, and a later
\* get_problems() returns that sequence, unchanged, without asking the
\* provider again, also when the population yielded no Problem.
C2_CachedUntilInvalidated ==
    [][\A s \in Children :
          (last'.op = "get_problems" /\ last'.src = s) =>
              /\ _cache'[s] # None
              /\ _cache[s] # None =>
                    /\ last'.listed = 0
                    /\ _cache'[s] = _cache[s]
                    /\ last'.ret = Some(_cache[s][1])]_vars

\* C3: the cache never holds two Problems with the same problem_id.
C3_NoDuplicateIds ==
    \A s \in Children :
        _cache[s] # None =>
            \A i, j \in 1..Len(_cache[s][1]) :
                i # j => _cache[s][1][i].problem_id # _cache[s][1][j].problem_id

\* C4: _insert_to_cache of a Problem whose id is already cached raises
\* InvalidProblem and leaves the cache as it was.
C4_DuplicateInsertRejected ==
    [][\A s \in Children :
          (/\ last'.op = "_insert_to_cache" /\ last'.src = s
           /\ held # None
           /\ _cache[s] # None
           /\ Index(_cache[s][1], held[1].problem_id) # 0) =>
              /\ last'.raised = "InvalidProblem"
              /\ _cache' = _cache]_vars

\* C4's case: an insert was refused for a cached id.
C4_Witness ==
    /\ last.op = "_insert_to_cache"
    /\ last.raised = "InvalidProblem"
    /\ Index(_cache[last.src][1], last.id) # 0

\* C5: delete_problem refused by the provider changes neither the cache nor
\* the observers and calls changed() on nobody.
C5_RefusedDeleteIsNoOp ==
    [][(last'.op = "delete_problem" /\ ~last'.accepted) =>
          /\ _cache' = _cache
          /\ _observers' = _observers
          /\ last'.events = <<>>
          /\ last'.delivered = EmptyBag
          /\ last'.raised = "none"]_vars

\* C5's case: a refused deletion of a cached id on a source with an observer.
C5_Witness ==
    /\ last.op = "delete_problem"
    /\ ~last.accepted
    /\ last.before = "populated"
    /\ Index(_cache[last.src][1], last.id) # 0
    /\ _observers[last.src] \cap Obs # {}

\* C6: an accepted delete_problem raises nothing and emits exactly one
\* notification in every cache state: DELETED_PROBLEM with the removed
\* Problem when the id is cached, else the cache becomes unset and the
\* notification is a general one.
C6_AcceptedDeleteNotifiesOnce ==
    [][\A s \in Children :
          (last'.op = "delete_problem" /\ last'.src = s /\ last'.accepted) =>
              /\ last'.raised = "none"
              /\ Len(last'.events) = 1
              /\ IF _cache[s] # None /\ Index(_cache[s][1], last'.id) # 0
                 THEN LET i == Index(_cache[s][1], last'.id)
                      IN  /\ _cache'[s] = Some(Remove(_cache[s][1], i))
                          /\ last'.events[1] =
                                Event(Some(DELETED_PROBLEM), Some(_cache[s][1][i]))
                 ELSE /\ _cache'[s] = None
                      /\ last'.events[1] = Event(None, None)]_vars

\* The number of changed(src, ...) calls made on observer o.
CallsOn(o, src, bag) ==
    LET D == {d \in BagToSet(bag) : d.to = o /\ d.source = src}
    IN  BagCardinality([d \in D |-> bag[d]])

\* C7: a MultipleSources.drop_cache() in which no child raises leaves every
\* child's cache unset and calls changed() once, with no change type and no
\* Problem, on each observer attached to the composite, and on no other
\* observer in the composite's name.
C7_CompositeDropNotifiesOnce ==
    (last.op = "MultipleSources.drop_cache" /\ last.raised = "none") =>
        /\ \A s \in Children : _cache[s] = None
        /\ \A o \in Obs :
              /\ CallsOn(o, Multi, last.delivered) =
                    IF o \in _observers[Multi] THEN 1 ELSE 0
              /\ o \in _observers[Multi] =>
                    CopiesIn([to |-> o, source |-> Multi, change_type |-> None,
                              problem |-> None], last.delivered) = 1

\* C7's case: the composite, with an observer of its own and one on its
\* first child, dropped the caches of two or more children, one populated.
C7_Witness ==
    /\ last.op = "MultipleSources.drop_cache"
    /\ last.raised = "none"
    /\ last.before = "populated"
    /\ NumSources >= 2
    /\ \E o \in _observers[Multi] : CallsOn(o, Multi, last.delivered) = 1
    /\ \E o \in _observers[1] \cap Obs : CallsOn(o, 1, last.delivered) = 1

\* C8: a MultipleSources.drop_cache() in which a child raised still emits the
\* one aggregate notification to the composite's observers.
C8_AggregateNotificationAfterChildRaise ==
    (last.op = "MultipleSources.drop_cache" /\ last.raised # "none") =>
        /\ Len(last.events) = 1
        /\ \A o \in _observers[Multi] : CallsOn(o, Multi, last.delivered) = 1

\* C9: refresh() of a tombstoned Problem changes nothing of the Problem (its
\* data and cached submission among the rest), makes no get_items call and
\* emits no notification.
C9_RefreshOfDeletedIsNoOp ==
    [][(last'.op = "refresh" /\ held # None /\ held[1]._deleted) =>
          /\ held' = held
          /\ last'.queried = 0
          /\ last'.events = <<>>
          /\ last'.delivered = EmptyBag
          /\ last'.raised = "none"]_vars

\* C9's case: refresh() was called on a tombstoned Problem that holds data
\* and a parsed submission.
C9_Witness ==
    /\ last.op = "refresh"
    /\ held # None
    /\ held[1]._deleted
    /\ held[1].submission # None
    /\ held[1].submission[1] # <<>>
    /\ "count" \in DOMAIN held[1].data

\* C10: no operation on a tombstoned Problem calls source.get_items, and
\* reading a stored field that is not in data raises nothing and yields None,
\* or 1 for 'count'.
C10_DeletedNeverQueries ==
    [][(/\ held # None
        /\ held[1]._deleted
        /\ last'.op \in {"__getitem__", "is_reported", "get_submission",
                         "get_application", "refresh"}) =>
          /\ last'.queried = 0
          /\ (/\ last'.op = "__getitem__"
              /\ last'.item \in RawKeys
              /\ last'.item \notin DOMAIN held[1].data) =>
                /\ last'.raised = "none"
                /\ last'.value = IF last'.item = "count"
                                 THEN Some(<<"1">>) ELSE None]_vars

\* C10's case: 'count' was read from a tombstoned Problem that has not
\* loaded it.
C10_Witness ==
    /\ last.op = "__getitem__"
    /\ last.item = "count"
    /\ held # None
    /\ held[1]._deleted
    /\ "count" \notin DOMAIN held[1].data
    /\ last.value = Some(<<"1">>)


\* C11: detach(observer) for an observer that is not attached raises
\* nothing and leaves the set of observers as it was.
C11_DetachOfStrangerTolerated ==
    [][(last'.op = "detach" /\ last'.id \notin _observers[last'.src])
       => /\ last'.raised = "none"
          /\ _observers' = _observers]_vars


\* The changed(src, change_type, problem) calls observer o received.
CallsWith(o, src, ev, bag) ==
    CopiesIn([to |-> o, source |-> src, change_type |-> ev.change_type,
              problem |-> ev.problem], bag)

\* C12: attach adds the observer unless it is attached, detach removes it,
\* and so after any sequence of them each notify(change_type, problem) calls
\* changed(source, change_type, problem) exactly once on every observer that
\* is attached and makes no call on an observer that is not.
C12_NotifyOncePerAttachedObserver ==
    [][/\ last'.op = "attach"
          => _observers' = [_observers EXCEPT ![last'.src] = @ \cup {last'.id}]
       /\ last'.op = "detach"
          => _observers' = [_observers EXCEPT ![last'.src] = @ \ {last'.id}]
       /\ last'.op = "notify"
          => \A o \in Obs :
                LET calls == IF o \in _observers[last'.src] THEN 1 ELSE 0
                IN  /\ CallsOn(o, last'.src, last'.delivered) = calls
                    /\ CallsWith(o, last'.src, last'.events[1],
                                 last'.delivered) = calls]_vars

C12_Witness ==
    /\ last.op = "notify"
    /\ last.events[1].problem # None
    /\ \E o1 \in Obs, o2 \in Obs :
          /\ o1 \in _observers[last.src]
          /\ o2 \notin _observers[last.src]
          /\ CallsOn(o1, last.src, last.delivered) = 1
          /\ CallsOn(o2, last.src, last.delivered) = 0


\* C13: Problem.delete() sets the tombstone before it asks the source, so
\* the source's DELETED_PROBLEM notification carries the tombstoned Problem.
\* When source.delete_problem raises, delete() raises nothing and returns
\* with the tombstone cleared, and the next refresh or access to a field
\* that is not cached queries the source again.
C13_FailedDeleteLeavesProblemLive ==
    [][/\ (last'.op = "delete" /\ last'.events # <<>>
           /\ last'.events[1].change_type = Some(DELETED_PROBLEM))
          => last'.events[1].problem[1]._deleted
       /\ (last'.op = "delete" /\ last'.caught # "none")
          => /\ last'.raised = "none"
             /\ ~last'.problem[1]._deleted
             /\ _cache'[1] # None
             /\ _cache'[1][1] = <<last'.problem[1]>>
       /\ (last.op = "delete" /\ last.caught # "none"
           /\ last'.op = "refresh")
          => last'.queried = 1
       /\ (last.op = "delete" /\ last.caught # "none"
           /\ last'.op = "__getitem__"
           /\ last'.item \notin DOMAIN last.problem[1].data)
          => last'.queried = 1]_vars

C13_Witness ==
    /\ last.op = "delete"
    /\ last.at = 1
    /\ last.caught = "Exception"
    /\ last.raised = "none"
    /\ _cache[1] # None
    /\ _cache[1][1] # <<>>
    /\ ~_cache[1][1][1]._deleted


\* C14: on a loaded cache, the empty one included, that does not hold the
\* id, a process_new_problem_id(problem_id) whose construction succeeds
\* appends the new Problem to the cache and emits exactly one NEW_PROBLEM
\* notification carrying it; so the Problem of a NEW_PROBLEM notification
\* emitted on a loaded cache is in the cache when the observers are called.
C14_NewProblemIsCached ==
    [][(/\ last'.op = "process_new_problem_id"
        /\ _cache[last'.src] # None
        /\ Index(_cache[last'.src][1], last'.id) = 0
        /\ last'.outcomes = <<"none">>)
       => /\ last'.events # <<>>
          /\ last'.events[1].change_type = Some(NEW_PROBLEM)
          /\ last'.events[1].problem # None
          /\ Len(last'.events) = 1
          /\ _cache'[last'.src] =
                Some(Append(_cache[last'.src][1], last'.events[1].problem[1]))]_vars


\* C15: process_new_problem_id(problem_id) propagates neither InvalidProblem
\* nor UnavailableSource: when the construction fails, or the id is in the
\* cache already, it returns normally, the cache is as it was and no
\* observer is notified.
C15_FailedProcessingIsSilent ==
    [][(/\ last'.op = "process_new_problem_id"
        /\ \/ last'.outcomes[1] \in ConstructionErrors
           \/ /\ _cache[last'.src] # None
              /\ Index(_cache[last'.src][1], last'.id) # 0)
       => /\ last'.raised = "none"
          /\ _cache' = _cache
          /\ last'.events = <<>>
          /\ last'.delivered = EmptyBag]_vars

\* A duplicate of a cached id was processed while an observer was attached.
C15_Witness ==
    /\ last.op = "process_new_problem_id"
    /\ last.outcomes = <<"none">>
    /\ last.raised = "none"
    /\ last.events = <<>>
    /\ _cache[1] # None
    /\ Index(_cache[1][1], last.id) # 0
    /\ 1 \in _observers[1]


\* The calls that make a child source notify.
ChildCalls == {"drop_cache", "delete_problem", "process_new_problem_id",
               "refresh"}

\* C16: outside a MultipleSources.drop_cache() call, every notification a
\* child emits (NEW_PROBLEM, DELETED_PROBLEM, CHANGED_PROBLEM or general) is
\* forwarded by the composite exactly once to each of the composite's
\* observers, with the same change type and the same Problem.
C16_ChildEventsForwardedOnce ==
    (last.op \in ChildCalls /\ last.src \in Children)
    => \A o \in Obs :
          LET calls == IF o \in _observers[Multi] THEN Len(last.events) ELSE 0
          IN  /\ CallsOn(o, Multi, last.delivered) = calls
              /\ \A i \in 1..Len(last.events) :
                    CallsWith(o, Multi, last.events[i], last.delivered) = calls

C16_Witness ==
    /\ last.op = "refresh"
    /\ last.src \in Children
    /\ last.events # <<>>
    /\ last.events[1].change_type = Some(CHANGED_PROBLEM)
    /\ \E o \in _observers[Multi] : CallsOn(o, Multi, last.delivered) = 1


\* A CachedSource.drop_cache() step that leaves the cache unset and calls
\* each attached observer once, with the event ev, and a get_problems() step
\* on an unset cache that asks the provider and keeps what it built.
DropCacheEmits(ev) ==
    /\ last'.op = "drop_cache"
       => /\ _cache'[last'.src] = None
          /\ last'.events = <<ev>>
          /\ \A o \in Obs :
                LET calls == IF o \in _observers[last'.src] THEN 1 ELSE 0
                IN  /\ CallsOn(o, last'.src, last'.delivered) = calls
                    /\ CallsWith(o, last'.src, ev, last'.delivered) = calls
    /\ (last'.op = "get_problems" /\ _cache[last'.src] = None)
       => /\ last'.listed = 1
          /\ _cache'[last'.src] = last'.ret
          /\ _cache'[last'.src] # None

\* C17 as stated: CachedSource.drop_cache() sets the cache to unset and emits
\* exactly one notification to each attached observer, of change type
\* CHANGED_PROBLEM and with no Problem; the next get_problems() repopulates
\* from the provider.
C17_DropCacheEmitsChanged ==
    [][DropCacheEmits(Event(Some(CHANGED_PROBLEM), None))]_vars

\* C17, amended: the one notification has no change type and no Problem.
C17_DropCacheEmitsGeneral ==
    [][DropCacheEmits(Event(None, None))]_vars

C17_Witness ==
    /\ last.op = "drop_cache"
    /\ last.before = "populated"
    /\ _cache[1] = None
    /\ 1 \in _observers[1]
    /\ CallsWith(1, 1, Event(None, None), last.delivered) = 1


\* C18: _disable_notify is false whenever no MultipleSources.drop_cache()
\* is in progress: after construction and after every drop_cache(), whether
\* it returned or a child raised; so the notification a child emits right
\* after a drop_cache() reaches every observer of the composite once.
C18_SuppressionFlagIsTransient ==
    /\ ~_disable_notify
    /\ [][/\ ~_disable_notify'
          /\ (/\ last.op = "MultipleSources.drop_cache"
              /\ last'.op \in ChildCalls
              /\ last'.src \in Children)
             => \A o \in _observers[Multi] :
                   CallsOn(o, Multi, last'.delivered) = Len(last'.events)]_vars

\* A composite drop_cache() in which a child raised has ended, with an
\* observer attached to the composite.
C18_Witness ==
    /\ last.op = "MultipleSources.drop_cache"
    /\ last.raised # "none"
    /\ _observers[Multi] # {}
    /\ ~_disable_notify


\* What get_submission() makes of the provider's reported_to.
Parsed(store) ==
    IF "reported_to" \in DOMAIN store /\ store["reported_to"] # <<>>
    THEN ParseLines(Split(store["reported_to"]))
    ELSE <<>>

\* C19: refresh() on a Problem that is not tombstoned, the provider
\* answering, replaces the Problem's fields by the provider's component,
\* executable, time and reason, clears the cached submission, so that the
\* next get_submission() parses the provider's reported_to again, and emits
\* exactly one CHANGED_PROBLEM notification carrying the Problem: one call
\* on each observer of its source and one on each observer of the composite.
C19_RefreshRefetchesAndNotifies ==
    [][/\ (/\ last'.op = "refresh"
           /\ ~_cache[last'.src][1][last'.at]._deleted
           /\ last'.raised = "none")
          => LET p == _cache'[last'.src][1][last'.at]
                 ev == Event(Some(CHANGED_PROBLEM), Some(p))
             IN  /\ last'.queried = 1
                 /\ p.data = Restrict(last'.store, InitialKeys)
                 /\ p.submission = None
                 /\ last'.events = <<ev>>
                 /\ \A o \in Obs, s \in {last'.src, Multi} :
                       LET calls == IF o \in _observers[s] THEN 1 ELSE 0
                       IN  /\ CallsOn(o, s, last'.delivered) = calls
                           /\ CallsWith(o, s, ev, last'.delivered) = calls
       /\ (/\ last.op = "refresh"
           /\ last.events # <<>>
           /\ last'.op = "get_submission"
           /\ last'.raised = "none")
          => /\ last'.queried = 1
             /\ _cache'[last'.src][1][last'.at].submission
                   = Some(Parsed(last'.store))]_vars

\* A cached Problem was refreshed from a provider that holds other fields
\* than the defaults, with observers on its source and on the composite.
C19_Witness ==
    /\ last.op = "refresh"
    /\ last.events # <<>>
    /\ last.store # DefaultItems
    /\ _cache[1] # None /\ _cache[1][1] # <<>>
    /\ _cache[1][1][1].submission = None
    /\ 1 \in _observers[1]
    /\ 2 \in _observers[Multi]
    /\ CallsOn(1, 1, last.delivered) = 1
    /\ CallsOn(2, Multi, last.delivered) = 1


\* C20: when delete() returns on a Problem of a CachedSource, the Problem is
\* tombstoned exactly if impl_delete_problem accepted the deletion: after a
\* refused deletion no Problem in the cache is tombstoned, and after an
\* accepted one the Problem is tombstoned.
C20_TombstoneIffAccepted ==
    [][(last'.op = "delete" /\ last'.caught # "Exception")
       => /\ last'.problem[1]._deleted = last'.accepted
          /\ ~last'.accepted
             => /\ _cache'[last'.src] # None
                /\ \A i \in 1..Len(_cache'[last'.src][1]) :
                      ~_cache'[last'.src][1][i]._deleted]_vars

====
